---- MODULE Spec2Model ----
(***************************************************************************)
(* A model of diesel's MysqlConnection (diesel/src/mysql/connection/mod.rs):*)
(* the statement cache, the prepared-query path, the one-shot and batch    *)
(* paths, the commit error processor and the transaction manager status.   *)
(* One connection, used by one caller at a time: every call is one action. *)
(***************************************************************************)
EXTENDS Integers, Sequences, FiniteSets, TLC

VARIABLES
    raw_connection,     \* RawConnection: whether it is open, and its multi-statement mode
    transaction_state,  \* AnsiTransactionManager.status: Valid(depth) or InError
    statement_cache,    \* StatementCache: cache key -> prepared Statement
    last,               \* the call that returned last: inputs, result, steps taken
    prepare_ok,         \* per cache key: prepare calls the server accepted
    prepare_failed,     \* cache keys whose prepare the server rejected at least once
    attempted,          \* cache keys a prepared execution was called with
    txn_run             \* the begins and rollbacks since the transaction was opened

vars == <<raw_connection, transaction_state, statement_cache, last,
          prepare_ok, prepare_failed, attempted, txn_run>>

----------------------------------------------------------------------------
(* Bounds of the model.                                                    *)

MaxDepth == 2
MaxRows == 1

(* The inputs the caller and the server can supply.                        *)

SqlTexts == {"q1", "q2"}
ParamLists == {<<1>>, <<2>>}
Queries == [sql : SqlTexts, params : ParamLists]
RawSql == {"SELECT 1", "SELECT 1; SELECT 2; SELECT 3;"}
Outcomes == {"ok", "err"}
BindOutcomes == {"ok", "collect_err", "bind_err"}
ServerErrors == {"DatabaseError", "ServerClosedTransaction"}
Errors == ServerErrors \cup {"BrokenTransaction", "NotInTransaction"}

----------------------------------------------------------------------------
(* TransactionManagerStatus.                                               *)

InError == [tag |-> "InError", depth |-> 0]

Valid(d) == [tag |-> "Valid", depth |-> d]

(* CommitErrorOutcome.                                                     *)

Throw(e) == [kind |-> "Throw", error |-> e]

AlreadyEnded == [kind |-> "AlreadyEnded", error |-> "None"]

NoOutcome == [kind |-> "None", error |-> "None"]

(* One step a call takes: its name, the SQL text it sends (if any),        *)
(* whether it succeeded, and the multi-statement mode of the connection    *)
(* when it ran.                                                            *)

SqlStep(name, sql, ok, raw) ==
    [step |-> name, sql |-> sql, ok |-> ok, multi |-> raw.multi_statements]

Step(name, ok, raw) == SqlStep(name, "", ok, raw)

ChannelSteps == {"prepare", "stmt_execute", "raw_execute", "set_server_option"}

ChannelOps(trace) == SelectSeq(trace, LAMBDA s : s.step \in ChannelSteps)

StepNames(trace) == [i \in 1..Len(trace) |-> trace[i].step]

Failed(trace, name) ==
    \E i \in 1..Len(trace) : trace[i].step = name /\ ~trace[i].ok

Has(trace, name) == \E i \in 1..Len(trace) : trace[i].step = name

----------------------------------------------------------------------------
(* RawConnection, the channel to the server.  The server's answer to each  *)
(* request is an input of the call.                                        *)

\* RawConnection::execute: one literal SQL batch, one round trip.
raw_execute(raw, sql, out, rows) ==
    [err   |-> IF out = "ok" THEN "None" ELSE out,
     rows  |-> IF out = "ok" THEN rows ELSE 0,
     raw   |-> raw,
     trace |-> <<SqlStep("raw_execute", sql, out = "ok", raw)>>]

\* RawConnection::prepare: compiles one SQL text into a statement handle.
raw_prepare(raw, sql, out) ==
    [err   |-> IF out = "ok" THEN "None" ELSE "PrepareError",
     stmt  |-> [sql |-> sql, bound |-> <<>>],
     trace |-> <<SqlStep("prepare", sql, out = "ok", raw)>>]

\* RawConnection::enable_multi_statements: the mode is switched on, the
\* batch runs, and the mode is switched off whatever the batch returned.
enable_multi_statements(raw, sql, out, rows) ==
    LET on  == [raw EXCEPT !.multi_statements = TRUE]
        r   == raw_execute(on, sql, out, rows)
        off == [r.raw EXCEPT !.multi_statements = FALSE]
    IN  [err   |-> r.err,
         raw   |-> off,
         trace |-> <<Step("set_server_option", TRUE, raw)>> \o r.trace
                   \o <<Step("set_server_option", TRUE, r.raw)>>]

----------------------------------------------------------------------------
(* StatementCache.                                                         *)

\* The cache key of a query: its rendered SQL text.
Fingerprint(q) == q.sql

\* StatementCache::cached_statement: the entry of the key if there is one,
\* else the statement the prepare closure returns, inserted under the key;
\* a failed prepare inserts nothing.
cached_statement(cache, raw, key, sql, prep) ==
    IF key \in DOMAIN cache
    THEN [err |-> "None", cache |-> cache, trace |-> <<>>]
    ELSE LET p == raw_prepare(raw, sql, prep)
         IN  [err   |-> p.err,
              cache |-> IF p.err = "None" THEN cache @@ (key :> p.stmt) ELSE cache,
              trace |-> p.trace]

----------------------------------------------------------------------------
(* MysqlConnection.                                                        *)

\* Statement::bind on the statement cached under key.
stmt_bind(cache, raw, key, params, bind) ==
    IF bind = "bind_err"
    THEN [err |-> "BindError", cache |-> cache,
          trace |-> <<Step("bind", FALSE, raw)>>]
    ELSE [err |-> "None", cache |-> [cache EXCEPT ![key].bound = params],
          trace |-> <<Step("bind", TRUE, raw)>>]

\* MysqlConnection::prepared_query, after the statement is found: the binds
\* of the query are collected and bound onto the statement.
collect_and_bind(cache, trace, raw, key, q, bind) ==
    IF bind = "collect_err"
    THEN [err |-> "SerializationError", cache |-> cache, key |-> key,
          stmt |-> cache[key].sql,
          trace |-> trace \o <<Step("collect_binds", FALSE, raw)>>]
    ELSE LET b == stmt_bind(cache, raw, key, q.params, bind)
         IN  [err |-> b.err, cache |-> b.cache, key |-> key,
              stmt |-> cache[key].sql,
              trace |-> trace \o <<Step("collect_binds", TRUE, raw)>> \o b.trace]

\* prepared_query without the cache: every call prepares.
prepared_query_always_prepares(cache, raw, q, prep, bind) ==
    LET key == Fingerprint(q)
        p   == raw_prepare(raw, q.sql, prep)
    IN  IF p.err # "None"
        THEN [err |-> p.err, cache |-> cache, key |-> key, stmt |-> "",
              trace |-> p.trace]
        ELSE collect_and_bind((key :> p.stmt) @@ cache, p.trace, raw, key, q, bind)

\* prepared_query with one cache key for every query.
prepared_query_shared_key(cache, raw, q, prep, bind) ==
    LET key == "q1"
        c   == cached_statement(cache, raw, key, q.sql, prep)
    IN  IF c.err # "None"
        THEN [err |-> c.err, cache |-> c.cache, key |-> key, stmt |-> "",
              trace |-> c.trace]
        ELSE collect_and_bind(c.cache, c.trace, raw, key, q, bind)

\* prepared_query that does not return on a failed prepare.
prepared_query_ignores_prepare_error(cache, raw, q, prep, bind) ==
    LET key == Fingerprint(q)
        c   == cached_statement(cache, raw, key, q.sql, prep)
    IN  IF c.err # "None"
        THEN [err |-> "None", cache |-> c.cache, key |-> key, stmt |-> q.sql,
              trace |-> c.trace \o <<Step("collect_binds", TRUE, raw),
                                     Step("bind", TRUE, raw)>>]
        ELSE collect_and_bind(c.cache, c.trace, raw, key, q, bind)

\* prepared_query that drops the result of collect_binds and of bind.
prepared_query_swallows_bind_error(cache, raw, q, prep, bind) ==
    LET key == Fingerprint(q)
        c   == cached_statement(cache, raw, key, q.sql, prep)
        b   == collect_and_bind(c.cache, c.trace, raw, key, q, bind)
    IN  IF c.err # "None"
        THEN [err |-> c.err, cache |-> c.cache, key |-> key, stmt |-> "",
              trace |-> c.trace]
        ELSE [b EXCEPT !.err = "None"]

\* prepared_query that binds only a statement it has just prepared.
prepared_query_binds_only_new(cache, raw, q, prep, bind) ==
    LET key == Fingerprint(q)
        c   == cached_statement(cache, raw, key, q.sql, prep)
    IN  IF c.err # "None"
        THEN [err |-> c.err, cache |-> c.cache, key |-> key, stmt |-> "",
              trace |-> c.trace]
        ELSE IF key \in DOMAIN cache
        THEN [err |-> "None", cache |-> c.cache, key |-> key,
              stmt |-> c.cache[key].sql, trace |-> c.trace]
        ELSE collect_and_bind(c.cache, c.trace, raw, key, q, bind)

\* prepared_query that drops the cached statement when the bind fails.
prepared_query_evicts_on_bind_error(cache, raw, q, prep, bind) ==
    LET key == Fingerprint(q)
        c   == cached_statement(cache, raw, key, q.sql, prep)
        b   == collect_and_bind(c.cache, c.trace, raw, key, q, bind)
    IN  IF c.err # "None"
        THEN [err |-> c.err, cache |-> c.cache, key |-> key, stmt |-> "",
              trace |-> c.trace]
        ELSE IF b.err # "None"
        THEN [b EXCEPT !.cache = [k \in DOMAIN b.cache \ {key} |-> b.cache[k]]]
        ELSE b

\* prepared_query that collects the binds before it looks for the statement.
prepared_query_collects_first(cache, raw, q, prep, bind) ==
    LET key == Fingerprint(q)
        c   == cached_statement(cache, raw, key, q.sql, prep)
    IN  IF bind # "ok"
        THEN [err |-> IF bind = "collect_err" THEN "SerializationError"
                      ELSE "BindError",
              cache |-> cache, key |-> key, stmt |-> "",
              trace |-> <<Step(IF bind = "collect_err" THEN "collect_binds"
                               ELSE "bind", FALSE, raw)>>]
        ELSE IF c.err # "None"
        THEN [err |-> c.err, cache |-> c.cache, key |-> key, stmt |-> "",
              trace |-> c.trace]
        ELSE collect_and_bind(c.cache, c.trace, raw, key, q, bind)

\* MysqlConnection::prepared_query
prepared_query(cache, raw, q, prep, bind) ==
    LET key == Fingerprint(q)
        c   == cached_statement(cache, raw, key, q.sql, prep)
    IN  IF c.err # "None"
        THEN [err |-> c.err, cache |-> c.cache, key |-> key, stmt |-> "",
              trace |-> c.trace]
        ELSE collect_and_bind(c.cache, c.trace, raw, key, q, bind)

\* Statement::execute on the statement prepared_query returned.
stmt_execute(raw, exec) ==
    [err   |-> IF exec = "ok" THEN "None" ELSE "ExecError",
     trace |-> <<Step("stmt_execute", exec = "ok", raw)>>]

\* execute_returning_count that runs a failed statement a second time.
execute_returning_count_retries(cache, raw, q, prep, bind, exec, rows) ==
    LET p == prepared_query(cache, raw, q, prep, bind)
    IN  IF p.err # "None"
        THEN [result |-> p.err, count |-> 0, cache |-> p.cache, key |-> p.key,
              stmt |-> p.stmt, trace |-> p.trace]
        ELSE LET e == stmt_execute(raw, exec)
             IN  [result |-> IF e.err = "None" THEN "Ok" ELSE e.err,
                  count  |-> IF e.err = "None" THEN rows ELSE 0,
                  cache  |-> p.cache, key |-> p.key, stmt |-> p.stmt,
                  trace  |-> IF e.err = "None" THEN p.trace \o e.trace
                             ELSE p.trace \o e.trace \o e.trace]

\* MysqlConnection::execute_returning_count
execute_returning_count(cache, raw, q, prep, bind, exec, rows) ==
    LET p == prepared_query(cache, raw, q, prep, bind)
    IN  IF p.err # "None"
        THEN [result |-> p.err, count |-> 0, cache |-> p.cache, key |-> p.key,
              stmt |-> p.stmt, trace |-> p.trace]
        ELSE LET e == stmt_execute(raw, exec)
             IN  [result |-> IF e.err = "None" THEN "Ok" ELSE e.err,
                  count  |-> IF e.err = "None" THEN rows ELSE 0,
                  cache  |-> p.cache, key |-> p.key, stmt |-> p.stmt,
                  trace  |-> p.trace \o e.trace]

\* MysqlConnection::load: the cursor is StatementIterator::from_stmt, which
\* runs the statement.
load(cache, raw, q, prep, bind, exec) ==
    LET p == prepared_query(cache, raw, q, prep, bind)
    IN  IF p.err # "None"
        THEN [result |-> p.err, count |-> 0, cache |-> p.cache, key |-> p.key,
              stmt |-> p.stmt, trace |-> p.trace]
        ELSE LET e == stmt_execute(raw, exec)
             IN  [result |-> IF e.err = "None" THEN "Ok" ELSE e.err,
                  count  |-> 0,
                  cache  |-> p.cache, key |-> p.key, stmt |-> p.stmt,
                  trace  |-> p.trace \o e.trace]

\* execute that reads the affected-row count before it looks at the result.
execute_reads_rows_first(raw, sql, out, rows) ==
    LET r == raw_execute(raw, sql, out, rows)
    IN  [result |-> IF r.err = "None" THEN "Ok" ELSE r.err,
         count  |-> r.rows, raw |-> r.raw,
         trace  |-> r.trace \o <<Step("affected_rows", TRUE, r.raw)>>]

\* MysqlConnection::execute
execute(raw, sql, out, rows) ==
    LET r == raw_execute(raw, sql, out, rows)
    IN  IF r.err = "None"
        THEN [result |-> "Ok", count |-> r.rows, raw |-> r.raw,
              trace |-> r.trace \o <<Step("affected_rows", TRUE, r.raw)>>]
        ELSE [result |-> r.err, count |-> 0, raw |-> r.raw, trace |-> r.trace]

\* batch_execute that returns a failed batch's error before the mode is
\* switched off.
batch_execute_returns_early(raw, sql, out, rows) ==
    LET on == [raw EXCEPT !.multi_statements = TRUE]
        r  == raw_execute(on, sql, out, rows)
    IN  IF r.err # "None"
        THEN [result |-> r.err, raw |-> r.raw,
              trace |-> <<Step("set_server_option", TRUE, raw)>> \o r.trace]
        ELSE [result |-> "Ok", raw |-> [r.raw EXCEPT !.multi_statements = FALSE],
              trace |-> <<Step("set_server_option", TRUE, raw)>> \o r.trace
                        \o <<Step("set_server_option", TRUE, r.raw)>>]

\* SimpleConnection::batch_execute
batch_execute(raw, sql, out, rows) ==
    LET r == enable_multi_statements(raw, sql, out, rows)
    IN  [result |-> IF r.err = "None" THEN "Ok" ELSE r.err,
         raw    |-> r.raw,
         trace  |-> r.trace]

----------------------------------------------------------------------------
(* MysqlConnection::establish and the session configuration.               *)

ConfigStatements ==
    <<"SET sql_mode=(SELECT CONCAT(@@sql_mode, ',PIPES_AS_CONCAT'))",
      "SET time_zone = '+00:00';",
      "SET character_set_client = 'utf8mb4'",
      "SET character_set_connection = 'utf8mb4'",
      "SET character_set_results = 'utf8mb4'">>

ConfigOutcomes == [1..Len(ConfigStatements) -> {"ok"} \cup ServerErrors]

\* The statements stmts[i..] run one after the other with execute; the
\* first error is returned and nothing runs after it.
RECURSIVE run_statements(_, _, _, _)
run_statements(raw, stmts, outs, i) ==
    IF i > Len(stmts)
    THEN [result |-> "Ok", raw |-> raw, trace |-> <<>>]
    ELSE LET r == execute(raw, stmts[i], outs[i], 0)
         IN  IF r.result # "Ok"
             THEN [result |-> r.result, raw |-> r.raw, trace |-> r.trace]
             ELSE LET rest == run_statements(r.raw, stmts, outs, i + 1)
                  IN  [result |-> rest.result, raw |-> rest.raw,
                       trace |-> r.trace \o rest.trace]

\* The statements stmts[i..] all run, whatever each returns.
RECURSIVE run_all_statements(_, _, _, _)
run_all_statements(raw, stmts, outs, i) ==
    IF i > Len(stmts)
    THEN [result |-> "Ok", raw |-> raw, trace |-> <<>>]
    ELSE LET r    == execute(raw, stmts[i], outs[i], 0)
             rest == run_all_statements(r.raw, stmts, outs, i + 1)
         IN  [result |-> "Ok", raw |-> rest.raw, trace |-> r.trace \o rest.trace]

\* set_config_options that drops the result of every statement.
set_config_options_ignores_errors(raw, outs) ==
    run_all_statements(raw, ConfigStatements, outs, 1)

\* set_config_options that sets the time zone before the SQL mode.
set_config_options_time_zone_first(raw, outs) ==
    run_statements(raw,
                   <<ConfigStatements[2], ConfigStatements[1]>>
                       \o SubSeq(ConfigStatements, 3, Len(ConfigStatements)),
                   outs, 1)

\* MysqlConnection::set_config_options
set_config_options(raw, outs) == run_statements(raw, ConfigStatements, outs, 1)

\* RawConnection::new: a channel that is not connected yet.
NewRawConnection == [open |-> FALSE, multi_statements |-> FALSE]

\* MysqlConnection::establish.  On an error the connection is dropped: the
\* caller gets the error and no connection.
establish(url_ok, connect_ok, outs) ==
    LET raw0  == NewRawConnection
        parse == Step("parse_url", url_ok, raw0)
        conn  == Step("connect", connect_ok, raw0)
        c     == set_config_options([raw0 EXCEPT !.open = TRUE], outs)
    IN  IF ~url_ok
        THEN [result |-> "InvalidConnectionUrl", error |-> "None", raw |-> raw0,
              trace |-> <<parse>>]
        ELSE IF ~connect_ok
        THEN [result |-> "BadConnection", error |-> "None", raw |-> raw0,
              trace |-> <<parse, conn>>]
        ELSE IF c.result # "Ok"
        THEN [result |-> "CouldntSetupConfiguration", error |-> c.result,
              raw |-> raw0, trace |-> <<parse, conn>> \o c.trace]
        ELSE [result |-> "Ok", error |-> "None", raw |-> c.raw,
              trace |-> <<parse, conn>> \o c.trace]

----------------------------------------------------------------------------
(* The commit error processor.                                             *)

ImplicitRollbackErrors == {"ServerClosedTransaction"}

\* default_process_commit_error, the policy shared by the backends.
default_process_commit_error(state, error) ==
    IF error \in ImplicitRollbackErrors THEN AlreadyEnded ELSE Throw(error)

\* process_commit_error without the InError arm.
process_commit_error_always_delegates(status, error) ==
    default_process_commit_error(status, error)

\* process_commit_error that surfaces every error of a valid transaction.
process_commit_error_always_throws(status, error) ==
    IF status.tag = "InError" THEN Throw("BrokenTransaction") ELSE Throw(error)

\* CommitErrorProcessor::process_commit_error
process_commit_error(status, error) ==
    IF status.tag = "InError"
    THEN Throw("BrokenTransaction")
    ELSE default_process_commit_error(status, error)

\* TransactionManagerStatus::transaction_depth: an error in InError, else
\* the depth of a valid transaction, which is none when no transaction is
\* open.
transaction_depth(status) ==
    IF status.tag = "InError"
    THEN [ok |-> FALSE, some |-> FALSE, depth |-> 0]
    ELSE [ok |-> TRUE, some |-> status.depth > 0, depth |-> status.depth]

\* R2D2Connection::is_broken
is_broken(status) ==
    LET d == transaction_depth(status)
    IN  IF d.ok THEN ~d.some ELSE TRUE

----------------------------------------------------------------------------
(* AnsiTransactionManager: the transitions of the transaction state.  Each *)
(* transaction statement is sent with batch_execute.                       *)

\* A transaction statement failed at this status.
AfterFailure(status) ==
    IF status.tag = "Valid" /\ status.depth = 0 THEN status ELSE InError

\* begin_transaction that does not look at the status first.
begin_transaction_unchecked(status, raw, out) ==
    LET r == batch_execute(raw, "BEGIN", out, 0)
    IN  [result  |-> r.result,
         status  |-> IF r.result = "Ok" THEN Valid(status.depth + 1)
                     ELSE AfterFailure(status),
         raw     |-> r.raw, trace |-> r.trace, outcome |-> NoOutcome]

\* AnsiTransactionManager::begin_transaction
begin_transaction(status, raw, out) ==
    IF status.tag = "InError"
    THEN [result |-> "BrokenTransaction", status |-> status, raw |-> raw,
          trace |-> <<>>, outcome |-> NoOutcome]
    ELSE LET r == batch_execute(raw, "BEGIN", out, 0)
         IN  [result  |-> r.result,
              status  |-> IF r.result = "Ok" THEN Valid(status.depth + 1)
                          ELSE AfterFailure(status),
              raw     |-> r.raw, trace |-> r.trace, outcome |-> NoOutcome]

\* commit_transaction that marks the transaction broken on every failure.
commit_transaction_breaks_on_failure(status, raw, out) ==
    IF status.tag = "InError"
    THEN [result |-> "BrokenTransaction", status |-> status, raw |-> raw,
          trace |-> <<>>, outcome |-> NoOutcome]
    ELSE IF status.depth = 0
    THEN [result |-> "NotInTransaction", status |-> status, raw |-> raw,
          trace |-> <<>>, outcome |-> NoOutcome]
    ELSE LET r == batch_execute(raw, "COMMIT", out, 0)
             o == process_commit_error(status, r.result)
         IN  IF r.result = "Ok"
             THEN [result |-> "Ok", status |-> Valid(status.depth - 1),
                   raw |-> r.raw, trace |-> r.trace, outcome |-> NoOutcome]
             ELSE [result |-> r.result, status |-> InError,
                   raw |-> r.raw, trace |-> r.trace, outcome |-> o]

\* AnsiTransactionManager::commit_transaction
commit_transaction(status, raw, out) ==
    IF status.tag = "InError"
    THEN [result |-> "BrokenTransaction", status |-> status, raw |-> raw,
          trace |-> <<>>, outcome |-> NoOutcome]
    ELSE IF status.depth = 0
    THEN [result |-> "NotInTransaction", status |-> status, raw |-> raw,
          trace |-> <<>>, outcome |-> NoOutcome]
    ELSE LET r == batch_execute(raw, "COMMIT", out, 0)
             o == process_commit_error(status, r.result)
         IN  IF r.result = "Ok"
             THEN [result |-> "Ok", status |-> Valid(status.depth - 1),
                   raw |-> r.raw, trace |-> r.trace, outcome |-> NoOutcome]
             ELSE IF o.kind = "AlreadyEnded"
             THEN [result |-> "Ok", status |-> Valid(status.depth - 1),
                   raw |-> r.raw, trace |-> r.trace, outcome |-> o]
             ELSE [result |-> o.error, status |-> InError,
                   raw |-> r.raw, trace |-> r.trace, outcome |-> o]

\* rollback_transaction that ends every open transaction at once.
rollback_transaction_ends_all(status, raw, out) ==
    LET r == batch_execute(raw, "ROLLBACK", out, 0)
    IN  IF status = Valid(0)
        THEN [result |-> "NotInTransaction", status |-> status, raw |-> raw,
              trace |-> <<>>, outcome |-> NoOutcome]
        ELSE [result  |-> r.result,
              status  |-> IF r.result # "Ok" THEN InError ELSE Valid(0),
              raw     |-> r.raw, trace |-> r.trace, outcome |-> NoOutcome]

\* AnsiTransactionManager::rollback_transaction
rollback_transaction(status, raw, out) ==
    LET r == batch_execute(raw, "ROLLBACK", out, 0)
    IN  IF status = Valid(0)
        THEN [result |-> "NotInTransaction", status |-> status, raw |-> raw,
              trace |-> <<>>, outcome |-> NoOutcome]
        ELSE [result  |-> r.result,
              status  |-> IF r.result # "Ok" THEN InError
                          ELSE IF status.tag = "InError" THEN Valid(0)
                          ELSE Valid(status.depth - 1),
              raw     |-> r.raw, trace |-> r.trace, outcome |-> NoOutcome]

----------------------------------------------------------------------------
(* The state machine.                                                      *)

\* The record of a call that never looked at the statement cache.
Call(op, sql, status, result, count, trace, error, outcome) ==
    [op |-> op, sql |-> sql, params |-> <<>>, was_cached |-> FALSE,
     had_failed |-> FALSE, pre_bound |-> <<>>, stmt_sql |-> "",
     pre_txn |-> status, result |-> result, count |-> count, trace |-> trace,
     error |-> error, outcome |-> outcome]

NoCall == Call("establish", "", Valid(0), "Ok", 0, <<>>, "None", NoOutcome)

\* The begins and rollbacks that succeeded since the outermost transaction
\* was opened; clean while they were begins followed by rollbacks only and
\* no transaction statement failed.
NoRun == [begins |-> 0, rollbacks |-> 0, clean |-> TRUE]

BrokenRun == [begins |-> 0, rollbacks |-> 0, clean |-> FALSE]

RunAfter(run, status, call) ==
    IF call.op = "begin" /\ call.result = "Ok"
    THEN IF status = Valid(0) THEN [begins |-> 1, rollbacks |-> 0, clean |-> TRUE]
         ELSE IF run.clean /\ run.rollbacks = 0
         THEN [run EXCEPT !.begins = @ + 1]
         ELSE BrokenRun
    ELSE IF /\ call.op = "rollback" /\ call.result = "Ok"
            /\ run.clean /\ run.rollbacks < run.begins
    THEN [run EXCEPT !.rollbacks = @ + 1]
    ELSE BrokenRun

\* The state MysqlConnection::establish returns.
Init ==
    /\ raw_connection = [open |-> TRUE, multi_statements |-> FALSE]
    /\ transaction_state = Valid(0)
    /\ statement_cache = <<>>
    /\ last = NoCall
    /\ prepare_ok = [k \in SqlTexts |-> 0]
    /\ prepare_failed = {}
    /\ attempted = {}
    /\ txn_run = NoRun

\* An answer of the server or of the binder that the call never asked for
\* is not an input of the call: it is fixed, so that each run of a call is
\* enumerated once.
Asked(trace, prep, bind, exec, rows) ==
    /\ ~Has(trace, "prepare") => prep = "ok"
    /\ ~Has(trace, "collect_binds") => bind = "ok"
    /\ ~Has(trace, "stmt_execute") => exec = "ok"
    /\ (\E i \in 1..Len(trace) : ~trace[i].ok) => rows = 0

\* The record of a prepared execution and the prepare counters after it.
Prepared(op, q, r) ==
    LET key == r.key
        okp == Cardinality({i \in 1..Len(r.trace) :
                              r.trace[i].step = "prepare" /\ r.trace[i].ok})
        erp == \E i \in 1..Len(r.trace) :
                   r.trace[i].step = "prepare" /\ ~r.trace[i].ok
    IN  /\ statement_cache' = r.cache
        /\ prepare_ok' = [prepare_ok EXCEPT ![key] = @ + okp]
        /\ prepare_failed' = IF erp THEN prepare_failed \cup {key} ELSE prepare_failed
        /\ attempted' = attempted \cup {Fingerprint(q)}
        /\ last' = [op |-> op, sql |-> q.sql, params |-> q.params,
                    was_cached |-> Fingerprint(q) \in DOMAIN statement_cache,
                    had_failed |-> Fingerprint(q) \in prepare_failed,
                    pre_bound |-> IF Fingerprint(q) \in DOMAIN statement_cache
                                  THEN statement_cache[Fingerprint(q)].bound
                                  ELSE <<>>,
                    stmt_sql |-> r.stmt,
                    pre_txn |-> transaction_state, result |-> r.result,
                    count |-> r.count, trace |-> r.trace,
                    error |-> "None", outcome |-> NoOutcome]
        /\ UNCHANGED <<raw_connection, transaction_state>>

ExecuteReturningCount ==
    \E q \in Queries, prep \in Outcomes, bind \in BindOutcomes,
       exec \in Outcomes, rows \in 0..MaxRows :
        LET r == execute_returning_count(statement_cache, raw_connection,
                                         q, prep, bind, exec, rows)
        IN  /\ Asked(r.trace, prep, bind, exec, rows)
            /\ Prepared("execute_returning_count", q, r)

Load ==
    \E q \in Queries, prep \in Outcomes, bind \in BindOutcomes, exec \in Outcomes :
        LET r == load(statement_cache, raw_connection, q, prep, bind, exec)
        IN  /\ Asked(r.trace, prep, bind, exec, 0)
            /\ Prepared("load", q, r)

\* The record of a call that goes to the channel without the cache.
Direct(op, sql, r, status, outcome) ==
    /\ raw_connection' = r.raw
    /\ transaction_state' = status
    /\ last' = Call(op, sql, transaction_state, r.result,
                    IF op = "execute" THEN r.count ELSE 0, r.trace, "None", outcome)
    /\ UNCHANGED <<statement_cache, prepare_ok, prepare_failed, attempted>>

Execute ==
    \E sql \in RawSql, out \in {"ok"} \cup ServerErrors, rows \in 0..MaxRows :
        /\ out # "ok" => rows = 0
        /\ Direct("execute", sql, execute(raw_connection, sql, out, rows),
                  transaction_state, NoOutcome)

BatchExecute ==
    \E sql \in RawSql, out \in {"ok"} \cup ServerErrors :
        Direct("batch_execute", sql, batch_execute(raw_connection, sql, out, 0),
               transaction_state, NoOutcome)

ProcessCommitError ==
    \E e \in Errors :
        /\ last' = Call("process_commit_error", "", transaction_state, "Ok", 0,
                        <<>>, e, process_commit_error(transaction_state, e))
        /\ UNCHANGED <<raw_connection, transaction_state, statement_cache,
                       prepare_ok, prepare_failed, attempted>>

IsBroken ==
    /\ last' = Call("is_broken", "", transaction_state,
                    IF is_broken(transaction_state) THEN "true" ELSE "false",
                    0, <<>>, "None", NoOutcome)
    /\ UNCHANGED <<raw_connection, transaction_state, statement_cache,
                   prepare_ok, prepare_failed, attempted>>

Begin ==
    \E out \in {"ok"} \cup ServerErrors :
        /\ transaction_state.tag = "Valid" => transaction_state.depth < MaxDepth
        /\ LET r == begin_transaction(transaction_state, raw_connection, out)
           IN  /\ r.trace = <<>> => out = "ok"
               /\ Direct("begin", "BEGIN", r, r.status, r.outcome)

Commit ==
    \E out \in {"ok"} \cup ServerErrors :
        LET r == commit_transaction(transaction_state, raw_connection, out)
        IN  /\ r.trace = <<>> => out = "ok"
            /\ Direct("commit", "COMMIT", r, r.status, r.outcome)

Rollback ==
    \E out \in {"ok"} \cup ServerErrors :
        LET r == rollback_transaction(transaction_state, raw_connection, out)
        IN  /\ r.trace = <<>> => out = "ok"
            /\ Direct("rollback", "ROLLBACK", r, r.status, r.outcome)

\* The run of begins and rollbacks is followed only where a property is
\* stated over it (TxnSpec).
KeepRun == UNCHANGED txn_run

TrackRun == txn_run' = RunAfter(txn_run, transaction_state, last')

Next ==
    \/ ExecuteReturningCount /\ KeepRun
    \/ Load /\ KeepRun
    \/ Execute /\ KeepRun
    \/ BatchExecute /\ KeepRun
    \/ ProcessCommitError /\ KeepRun
    \/ IsBroken /\ KeepRun
    \/ Begin /\ KeepRun
    \/ Commit /\ KeepRun
    \/ Rollback /\ KeepRun

Spec == Init /\ [][Next]_vars

\* The transaction calls, with one-shot statements and commit error
\* classification between them.
TxnNext ==
    \/ Begin /\ TrackRun
    \/ Commit /\ TrackRun
    \/ Rollback /\ TrackRun
    \/ Execute /\ KeepRun
    \/ BatchExecute /\ KeepRun
    \/ ProcessCommitError /\ KeepRun

TxnSpec == Init /\ [][TxnNext]_vars

----------------------------------------------------------------------------
(* The connection from before establish is called.                         *)

\* No connection exists yet.
EstablishInit ==
    /\ raw_connection = NewRawConnection
    /\ transaction_state = Valid(0)
    /\ statement_cache = <<>>
    /\ last = Call("none", "", Valid(0), "Ok", 0, <<>>, "None", NoOutcome)
    /\ prepare_ok = [k \in SqlTexts |-> 0]
    /\ prepare_failed = {}
    /\ attempted = {}
    /\ txn_run = NoRun

\* The SQL texts the steps of a trace sent with RawConnection::execute.
Issued(trace) ==
    LET sent == SelectSeq(trace, LAMBDA s : s.step = "raw_execute")
    IN  [i \in 1..Len(sent) |-> sent[i].sql]

\* establish is called while the caller holds no connection; the answers
\* to requests the call never makes are fixed.
Establish ==
    /\ ~raw_connection.open
    /\ \E url_ok \in BOOLEAN, connect_ok \in BOOLEAN, outs \in ConfigOutcomes :
         LET r == establish(url_ok, connect_ok, outs)
         IN  /\ ~Has(r.trace, "connect") => connect_ok
             /\ \A i \in 1..Len(ConfigStatements) :
                   i > Len(Issued(r.trace)) => outs[i] = "ok"
             /\ raw_connection' = r.raw
             /\ transaction_state' = Valid(0)
             /\ statement_cache' = <<>>
             /\ last' = Call("establish", "", Valid(0), r.result, 0, r.trace,
                             r.error, NoOutcome)
             /\ UNCHANGED <<prepare_ok, prepare_failed, attempted, txn_run>>

EstablishNext ==
    \/ Establish
    \/ raw_connection.open /\ Next

EstablishSpec == EstablishInit /\ [][EstablishNext]_vars

----------------------------------------------------------------------------
(* Properties.                                                             *)

PreparedOps == {"execute_returning_count", "load"}

BindErrors == {"SerializationError", "BindError"}

BindSteps == <<"collect_binds", "bind", "stmt_execute">>

\* C1: a prepared execution whose fingerprint an earlier execution already
\* prepared sends no prepare, whatever its parameter values; a first
\* execution sends the prepare first; each successful execution is one
\* collect-and-bind followed by one execute; and the server has accepted
\* exactly one prepare for every cached fingerprint.
C1_CachedStatementReused ==
    /\ \A k \in DOMAIN statement_cache : prepare_ok[k] = 1
    /\ last.op \in PreparedOps =>
         /\ last.was_cached => ~Has(last.trace, "prepare")
         /\ ~last.was_cached =>
              /\ last.trace[1].step = "prepare"
              /\ Cardinality({i \in 1..Len(last.trace) :
                                last.trace[i].step = "prepare"}) = 1
         /\ last.result = "Ok" =>
              StepNames(last.trace) =
                  IF last.was_cached THEN BindSteps ELSE <<"prepare">> \o BindSteps

\* C1 witness: a second execution of a fingerprint, with other parameter
\* values than the statement was bound to before, ran on the cached statement.
C1_Witness ==
    /\ last.op \in PreparedOps
    /\ last.was_cached
    /\ last.pre_bound # <<>>
    /\ last.pre_bound # last.params
    /\ last.result = "Ok"
    /\ prepare_ok[last.sql] = 1

\* C2: while no prepare has failed, the server has seen one prepare for
\* each fingerprint that was executed and none for the others, and the
\* statement a call gets from the cache was prepared from the call's own SQL.
C2_OnePreparePerDistinctFingerprint ==
    /\ prepare_failed = {} =>
         \A k \in SqlTexts : prepare_ok[k] = IF k \in attempted THEN 1 ELSE 0
    /\ \A k \in DOMAIN statement_cache : statement_cache[k].sql = k
    /\ (last.op \in PreparedOps /\ last.stmt_sql # "") => last.stmt_sql = last.sql

\* C2 witness: both queries were executed, the later one a repeat after the
\* other query, and each was prepared once.
C2_Witness ==
    /\ prepare_failed = {}
    /\ attempted = SqlTexts
    /\ \A k \in SqlTexts : prepare_ok[k] = 1
    /\ last.op \in PreparedOps
    /\ last.was_cached

\* C3: a prepared execution called while the transaction state is InError
\* fails with the broken-transaction error and sends nothing to the channel.
C3_BrokenTransactionRejected ==
    (last.op \in PreparedOps /\ last.pre_txn.tag = "InError") =>
        /\ last.result = "BrokenTransaction"
        /\ last.trace = <<>>

\* C4: an execute_returning_count whose statement fails at execution inside
\* an open transaction leaves the transaction state InError.
C4_ExecFailureBreaksTransaction ==
    (/\ last.op = "execute_returning_count"
     /\ last.result = "ExecError"
     /\ last.pre_txn.tag = "Valid"
     /\ last.pre_txn.depth > 0) => transaction_state = InError

\* C5: process_commit_error called in InError returns Throw(BrokenTransaction)
\* for every error, also for one the default policy treats as benign.
C5_InErrorThrowsBrokenTransaction ==
    (last.op = "process_commit_error" /\ last.pre_txn.tag = "InError") =>
        last.outcome = Throw("BrokenTransaction")

\* C5 witness: process_commit_error was called in InError with an error the
\* default policy resolves as 'transaction already ended'.
C5_Witness ==
    /\ last.op = "process_commit_error"
    /\ last.pre_txn.tag = "InError"
    /\ last.error \in ImplicitRollbackErrors
    /\ last.outcome.kind = "Throw"

\* C6: process_commit_error called in Valid(v) returns the default policy's
\* outcome for (v, error), and no call of process_commit_error changes the
\* transaction state or the statement cache.
C6_ValidDelegatesToDefault ==
    /\ [](  (last.op = "process_commit_error" /\ last.pre_txn.tag = "Valid") =>
              last.outcome = default_process_commit_error(last.pre_txn, last.error))
    /\ [][ last'.op = "process_commit_error" =>
              /\ transaction_state' = transaction_state
              /\ statement_cache' = statement_cache
              /\ last'.pre_txn = transaction_state ]_vars

\* C6 witness: process_commit_error was called inside an open transaction,
\* with statements cached, on an error the default policy treats as benign.
C6_Witness ==
    /\ last.op = "process_commit_error"
    /\ last.pre_txn.tag = "Valid"
    /\ last.pre_txn.depth > 0
    /\ last.outcome = AlreadyEnded
    /\ DOMAIN statement_cache # {}

\* C7: a commit that fails in Valid(d) and that the classifier resolves as
\* 'transaction already ended' returns success and leaves a Valid state.
C7_BenignCommitFailureIsSuccess ==
    (/\ last.op = "commit"
     /\ last.pre_txn.tag = "Valid"
     /\ Failed(last.trace, "raw_execute")
     /\ last.outcome = AlreadyEnded) =>
        /\ last.result = "Ok"
        /\ transaction_state.tag = "Valid"

\* C7 witness: a commit of a nested transaction failed with an error the
\* classifier resolves as 'transaction already ended'.
C7_Witness ==
    /\ last.op = "commit"
    /\ last.pre_txn = Valid(2)
    /\ Failed(last.trace, "raw_execute")
    /\ last.outcome = AlreadyEnded

\* C8: a prepared execution whose prepare fails returns the prepare error
\* after that one step, with no bind and no execute, the statement cache is
\* the one before the call, and every execution of a fingerprint that is not
\* cached, also after a failed prepare, starts with a prepare.
C8_PrepareFailureCachesNothing ==
    /\ [](  last.op \in PreparedOps =>
              /\ Failed(last.trace, "prepare") =>
                   /\ last.result = "PrepareError"
                   /\ StepNames(last.trace) = <<"prepare">>
                   /\ last.sql \notin DOMAIN statement_cache
              /\ ~last.was_cached => last.trace[1].step = "prepare")
    /\ [][ (last'.op \in PreparedOps /\ Failed(last'.trace, "prepare")) =>
              statement_cache' = statement_cache ]_vars

\* C8 witness: the prepare of a fingerprint failed in a call after an
\* earlier failed prepare of the same fingerprint.
C8_Witness ==
    /\ last.op \in PreparedOps
    /\ last.had_failed
    /\ ~last.was_cached
    /\ last.result = "PrepareError"

\* C9 as claimed: a prepared execution that ends with a bind error has sent
\* nothing to the channel, cached fingerprint or not.
C9_BindErrorSendsNothing ==
    (last.op \in PreparedOps /\ last.result \in BindErrors) =>
        ChannelOps(last.trace) = <<>>

\* C9, amended: a prepared execution in which collecting or binding the
\* parameters fails returns that bind error and never runs the statement;
\* it sends nothing to the channel when the fingerprint was cached, and
\* exactly the one prepare, before the bind, when it was not.
C9_BindErrorNeverExecutes ==
    (/\ last.op \in PreparedOps
     /\ \/ Failed(last.trace, "collect_binds")
        \/ Failed(last.trace, "bind")) =>
        /\ last.result \in BindErrors
        /\ ~Has(last.trace, "stmt_execute")
        /\ StepNames(ChannelOps(last.trace)) =
               IF last.was_cached THEN <<>> ELSE <<"prepare">>

\* C9 witness: the bind failed in the first execution of a fingerprint,
\* after its prepare was sent.
C9_Witness ==
    /\ last.op \in PreparedOps
    /\ last.result = "BindError"
    /\ ~last.was_cached
    /\ Has(last.trace, "prepare")

\* C10: multi-statement mode is off whenever no call is running; a
\* batch_execute switches it on, runs the batch with it on and switches it
\* off, whether the batch succeeded or failed; and every prepare and every
\* execution of a prepared statement runs with it off.
C10_MultiStatementsOnlyDuringBatch ==
    /\ ~raw_connection.multi_statements
    /\ \A i \in 1..Len(last.trace) :
         last.trace[i].step \in {"prepare", "stmt_execute"} => ~last.trace[i].multi
    /\ last.op = "batch_execute" =>
         /\ StepNames(last.trace) =
                <<"set_server_option", "raw_execute", "set_server_option">>
         /\ ~last.trace[1].multi
         /\ last.trace[2].multi
         /\ last.trace[3].multi

\* C10 witness: a batch failed and the mode is off again.
C10_Witness ==
    /\ last.op = "batch_execute"
    /\ last.result # "Ok"
    /\ last.trace[2].multi
    /\ ~raw_connection.multi_statements

\* The position of the first step of a trace that failed (0 if none did).
FirstFailure(trace) ==
    IF \A i \in 1..Len(trace) : trace[i].ok THEN 0
    ELSE CHOOSE i \in 1..Len(trace) :
             ~trace[i].ok /\ \A j \in 1..(i - 1) : trace[j].ok

\* C11: an establish in which a step fails returns no connection and stops
\* at that step: a failed URL parse or connect gives a connection error
\* with no configuration statement issued, and a failed configuration
\* statement gives CouldntSetupConfiguration wrapping a statement error,
\* with none of the later configuration statements issued.
C11_EstablishFailureReturnsNoConnection ==
    (last.op = "establish" /\ FirstFailure(last.trace) # 0) =>
        LET f == FirstFailure(last.trace)
        IN  /\ ~raw_connection.open
            /\ f = Len(last.trace)
            /\ last.trace[f].step \in {"parse_url", "connect"} =>
                 /\ last.result \in {"InvalidConnectionUrl", "BadConnection"}
                 /\ last.result = "InvalidConnectionUrl" <=>
                        last.trace[f].step = "parse_url"
                 /\ Issued(last.trace) = <<>>
            /\ last.trace[f].step = "raw_execute" =>
                 /\ last.result = "CouldntSetupConfiguration"
                 /\ last.error \in ServerErrors
                 /\ Issued(last.trace) =
                        SubSeq(ConfigStatements, 1, Len(Issued(last.trace)))

\* C11 witness: the third configuration statement failed after two were
\* issued, and no connection was returned.
C11_Witness ==
    /\ last.op = "establish"
    /\ last.result = "CouldntSetupConfiguration"
    /\ Len(Issued(last.trace)) = 3
    /\ ~raw_connection.open

\* C12: a successful establish parses the URL, connects, and then issues
\* the five configuration statements once each in their fixed order, each
\* with the one-shot execute (no prepare); the connection it returns is
\* open, at Valid(0), with an empty statement cache.
C12_EstablishConfiguresInOrder ==
    (last.op = "establish" /\ last.result = "Ok") =>
        /\ Issued(last.trace) = ConfigStatements
        /\ StepNames(last.trace) =
               <<"parse_url", "connect",
                 "raw_execute", "affected_rows", "raw_execute", "affected_rows",
                 "raw_execute", "affected_rows", "raw_execute", "affected_rows",
                 "raw_execute", "affected_rows">>
        /\ \A i \in 1..Len(last.trace) : last.trace[i].ok /\ ~last.trace[i].multi
        /\ raw_connection = [open |-> TRUE, multi_statements |-> FALSE]
        /\ transaction_state = Valid(0)
        /\ statement_cache = <<>>

\* C12 witness: establish succeeded.
C12_Witness ==
    /\ last.op = "establish"
    /\ last.result = "Ok"
    /\ Len(Issued(last.trace)) = Len(ConfigStatements)
    /\ raw_connection.open

\* C13: a run of n successful begins followed by successful rollbacks,
\* started at Valid(0) with no failed transaction statement in between, is
\* at Valid(begins - rollbacks), so at Valid(0) after n rollbacks; each
\* successful begin raises the depth by one, each successful commit or
\* rollback of a valid transaction lowers it by one from a depth above 0,
\* and the depth is never negative.
C13_BeginRollbackBalance ==
    /\ txn_run.clean =>
         transaction_state = Valid(txn_run.begins - txn_run.rollbacks)
    /\ transaction_state.depth >= 0
    /\ (last.op = "begin" /\ last.result = "Ok") =>
         /\ last.pre_txn.tag = "Valid"
         /\ transaction_state = Valid(last.pre_txn.depth + 1)
    /\ (/\ last.op \in {"commit", "rollback"}
        /\ last.result = "Ok"
        /\ last.pre_txn.tag = "Valid") =>
         /\ last.pre_txn.depth > 0
         /\ transaction_state = Valid(last.pre_txn.depth - 1)

\* C13 witness: as many begins as the model allows, then as many
\* rollbacks, ended at Valid(0).
C13_Witness ==
    /\ txn_run = [begins |-> MaxDepth, rollbacks |-> MaxDepth, clean |-> TRUE]
    /\ last.op = "rollback"
    /\ transaction_state = Valid(0)

\* C14: begin called in InError fails and leaves InError, and the only
\* step that leaves InError is a successful rollback, which yields Valid(0):
\* no execute, execute_returning_count, load, batch_execute, commit or
\* process_commit_error does.
C14_InErrorLeftOnlyByRollback ==
    /\ [](  (last.op = "begin" /\ last.pre_txn = InError) =>
              /\ last.result = "BrokenTransaction"
              /\ transaction_state = InError)
    /\ [][ (transaction_state = InError /\ transaction_state' # InError) =>
              /\ last'.op = "rollback"
              /\ last'.result = "Ok"
              /\ transaction_state' = Valid(0) ]_vars

\* C14 witness: a rollback called in InError succeeded and the state is
\* Valid(0).
C14_Witness ==
    /\ last.op = "rollback"
    /\ last.pre_txn = InError
    /\ last.result = "Ok"
    /\ transaction_state = Valid(0)

\* C15: every prepared execution that reaches the statement's execute has
\* collected the binds of the current query and bound them, in that order,
\* after the cache lookup (and the prepare on a miss) and directly before
\* the execute, on a hit as on a miss, and the statement then holds exactly
\* the current call's parameter sequence, whatever it held before.
C15_BindsCurrentParamsBeforeExecute ==
    (last.op \in PreparedOps /\ Has(last.trace, "stmt_execute")) =>
        LET n == Len(last.trace)
        IN  /\ n = IF last.was_cached THEN 3 ELSE 4
            /\ ~last.was_cached => last.trace[1].step = "prepare"
            /\ last.trace[n - 2].step = "collect_binds" /\ last.trace[n - 2].ok
            /\ last.trace[n - 1].step = "bind" /\ last.trace[n - 1].ok
            /\ last.trace[n].step = "stmt_execute"
            /\ last.sql \in DOMAIN statement_cache
            /\ statement_cache[last.sql].bound = last.params

\* C15 witness: a cached statement that held other parameter values ran
\* with the current call's values.
C15_Witness ==
    /\ last.op \in PreparedOps
    /\ last.was_cached
    /\ last.pre_bound # <<>>
    /\ last.pre_bound # last.params
    /\ Has(last.trace, "stmt_execute")
    /\ statement_cache[last.sql].bound = last.params

\* C16: execute and batch_execute leave the statement cache and the
\* prepare counters as they were and send no prepare, whether they succeed
\* or fail; a successful execute is one statement followed by one read of
\* the affected-row count, and a failed execute returns the statement's
\* error with a count of 0 and without reading the affected-row count.
C16_DirectCallsBypassCache ==
    /\ [](  last.op \in {"execute", "batch_execute"} =>
              /\ ~Has(last.trace, "prepare")
              /\ ~Has(last.trace, "stmt_execute")
              /\ last.op = "execute" =>
                   /\ last.trace[1].step = "raw_execute"
                   /\ last.result = "Ok" =>
                        /\ last.trace[1].ok
                        /\ StepNames(last.trace) = <<"raw_execute", "affected_rows">>
                   /\ last.result # "Ok" =>
                        /\ last.result \in ServerErrors
                        /\ ~last.trace[1].ok
                        /\ ~Has(last.trace, "affected_rows")
                        /\ last.count = 0 )
    /\ [][ last'.op \in {"execute", "batch_execute"} =>
              /\ statement_cache' = statement_cache
              /\ prepare_ok' = prepare_ok
              /\ prepare_failed' = prepare_failed ]_vars

\* C16 witness: an execute succeeded with a non-zero count on a connection
\* whose cache holds a bound statement for every fingerprint.
C16_Witness ==
    /\ last.op = "execute"
    /\ last.result = "Ok"
    /\ last.count = MaxRows
    /\ DOMAIN statement_cache = SqlTexts
    /\ \A k \in DOMAIN statement_cache : statement_cache[k].bound # <<>>

\* C17: no step removes a fingerprint from the statement cache, replaces
\* its statement or prepares it again.
C17_CacheNeverEvicts ==
    [][ \A k \in DOMAIN statement_cache :
            /\ k \in DOMAIN statement_cache'
            /\ statement_cache'[k].sql = statement_cache[k].sql
            /\ prepare_ok'[k] = prepare_ok[k] ]_vars

\* C17 witness: in a broken transaction, a cached statement whose bind or
\* execution failed is still cached, with every fingerprint cached.
C17_Witness ==
    /\ last.op \in PreparedOps
    /\ last.was_cached
    /\ last.result \in {"ExecError"} \cup BindErrors
    /\ transaction_state = InError
    /\ DOMAIN statement_cache = SqlTexts
    /\ \A k \in SqlTexts : prepare_ok[k] = 1

CountSteps(trace, name) ==
    Cardinality({i \in 1..Len(trace) : trace[i].step = name})

StepError(name) ==
    CASE name = "prepare"       -> "PrepareError"
      [] name = "collect_binds" -> "SerializationError"
      [] name = "bind"          -> "BindError"
      [] name = "stmt_execute"  -> "ExecError"
      [] OTHER                  -> "None"

\* C18: a prepared execution sends at most one prepare and at most one
\* execute, an execute sends exactly one statement, and in either a failed
\* step is the last step of the call, which returns that step's error.
C18_NothingRetried ==
    /\ last.op \in PreparedOps =>
         /\ CountSteps(last.trace, "prepare") <= 1
         /\ CountSteps(last.trace, "stmt_execute") <= 1
         /\ \A name \in {"collect_binds", "bind"} :
                CountSteps(last.trace, name) <= 1
         /\ FirstFailure(last.trace) # 0 =>
              /\ FirstFailure(last.trace) = Len(last.trace)
              /\ last.result = StepError(last.trace[Len(last.trace)].step)
         /\ FirstFailure(last.trace) = 0 => last.result = "Ok"
    /\ last.op = "execute" =>
         /\ CountSteps(last.trace, "raw_execute") = 1
         /\ FirstFailure(last.trace) # 0 =>
              /\ FirstFailure(last.trace) = Len(last.trace)
              /\ last.result \in ServerErrors

\* C18 witness: the execute of a cached statement failed.
C18_Witness ==
    /\ last.op = "execute_returning_count"
    /\ last.was_cached
    /\ Failed(last.trace, "stmt_execute")
    /\ last.result = "ExecError"

\* C19: when collecting or binding fails on the first execution of a
\* fingerprint, the prepare was sent and accepted first and the statement
\* is in the cache afterwards; and an execution that finds a statement in
\* the cache sends no prepare, also when that statement was never bound.
C19_PreparedBeforeBound ==
    last.op \in PreparedOps =>
        /\ (/\ ~last.was_cached
            /\ Failed(last.trace, "collect_binds") \/ Failed(last.trace, "bind")) =>
              /\ last.trace[1].step = "prepare" /\ last.trace[1].ok
              /\ last.result \in BindErrors
              /\ last.sql \in DOMAIN statement_cache
              /\ statement_cache[last.sql].sql = last.sql
              /\ prepare_ok[last.sql] = 1
        /\ last.was_cached => ~Has(last.trace, "prepare")

\* C19 witness: a statement that was cached by an execution whose bind
\* failed, and so never bound, ran without a prepare.
C19_Witness ==
    /\ last.op \in PreparedOps
    /\ last.was_cached
    /\ last.pre_bound = <<>>
    /\ ~Has(last.trace, "prepare")
    /\ last.result = "Ok"
    /\ prepare_ok[last.sql] = 1

\* C20: is_broken answers true when the transaction status is InError and
\* false when it is Valid with no open transaction.
C20_IdleConnectionNotBroken ==
    last.op = "is_broken" =>
        /\ last.pre_txn = InError => last.result = "true"
        /\ last.pre_txn = Valid(0) => last.result = "false"

====
